---- MODULE Spec2Model ----
(***************************************************************************)
(* A model of lyyjson.c, the Lua binding of yyjson: the size-tracking      *)
(* allocator (memalloc_t with malloc_lua, realloc_lua, free_lua and        *)
(* memalloc_dispose), the builder tovalue that turns a Lua value into a    *)
(* mutable JSON value, and the entry points encode_lua and decode_lua.     *)
(***************************************************************************)
EXTENDS Integers, Sequences, FiniteSets, TLC

VARIABLES
    pc,        \* position of the running entry point / life of the arena
    m,         \* memalloc_t: usesize, maxsize, nomem and the size table of m->th
    heap,      \* the blocks that are live in the allocator behind m->allocf
    maxarg,    \* the max_memory argument (lua_Integer) the arena was created from
    last,      \* the last allocator call and how it ended
    asserted,  \* memalloc_dispose's assert(m->usesize == 0) failed
    ndispose,  \* how many times memalloc_dispose was reached
    arg,       \* the value given to encode, or the document given to decode
    sched,     \* the m->allocf calls made so far and the one that fails
    L,         \* the Lua stack of the calling state
    blocks,    \* the blocks the yyjson document owns
    val,       \* what tovalue returned for the argument
    root,      \* the root value of the mutable document
    str,       \* the output buffer of the writer
    err,       \* yyjson_read_err / yyjson_write_err of the call
    ret        \* how the entry point ended and the values it returned

callVars == <<arg, sched, L, blocks, val, root, str, err, ret>>
vars == <<pc, m, heap, maxarg, last, asserted, ndispose, callVars>>

(***************************************************************************)
(* Bounds of the model.                                                    *)
(***************************************************************************)
\* width of size_t in the model
SizeBits == 4
\* number of distinct addresses the allocator can hand out
MaxBlocks == 2

RECURSIVE Pow2(_)
Pow2(n) == IF n = 0 THEN 1 ELSE 2 * Pow2(n - 1)

SIZE_MAX == Pow2(SizeBits) - 1

\* size_t arithmetic
Wrap(n) == n % (SIZE_MAX + 1)

NULL == 0
Addrs == 1 .. MaxBlocks

\* the request sizes and ceilings that are tried
Sizes == {0, 1, 2, SIZE_MAX}
MaxArgs == {-1, 0, 2, 3, SIZE_MAX}

(***************************************************************************)
(* snprintf(b, sizeof(b), "%p", ptr): the key of a block in the size table *)
(* is the hexadecimal text of its address.                                 *)
(***************************************************************************)
HexDigit == <<"0", "1", "2", "3", "4", "5", "6", "7",
              "8", "9", "a", "b", "c", "d", "e", "f">>

RECURSIVE Hex(_)
Hex(n) == IF n < 16 THEN <<HexDigit[n + 1]>>
          ELSE Hex(n \div 16) \o <<HexDigit[(n % 16) + 1]>>

PtrKey(ptr) == <<"0", "x">> \o Hex(ptr)

(***************************************************************************)
(* Finite maps: the size table (key -> size) and the heap (address ->      *)
(* size).                                                                  *)
(***************************************************************************)
Empty == [k \in {} |-> 0]
Put(f, k, v) == [x \in (DOMAIN f) \cup {k} |-> IF x = k THEN v ELSE f[x]]
Del(f, k) == [x \in (DOMAIN f) \ {k} |-> f[x]]

RECURSIVE Total(_)
Total(f) == IF DOMAIN f = {} THEN 0
            ELSE LET k == CHOOSE x \in DOMAIN f : TRUE
                 IN f[k] + Total(Del(f, k))

(***************************************************************************)
(* m->allocf, the lua_Alloc of the host state (lua_getallocf): with        *)
(* nsize = 0 it frees ptr and returns NULL (free_lua relies on it), with   *)
(* ptr = NULL it allocates, otherwise it reallocates and may move the      *)
(* block.  It may return NULL for any request, and it cannot hold more     *)
(* than the address space.  The result is the set of possible outcomes.    *)
(***************************************************************************)
Allocf(h, ptr, nsize) ==
    IF nsize = 0
    THEN {[ptr |-> NULL, heap |-> Del(h, ptr)]}
    ELSE LET rest  == Del(h, ptr)
             fits  == Total(rest) + nsize <= SIZE_MAX
             where == IF fits THEN Addrs \ DOMAIN rest ELSE {}
         IN {[ptr |-> NULL, heap |-> h]}
            \cup {[ptr |-> a, heap |-> Put(rest, a, nsize)] : a \in where}

(***************************************************************************)
(* memalloc_t                                                              *)
(***************************************************************************)
memalloc_init(maxsize) ==
    [usesize |-> 0, maxsize |-> maxsize, nomem |-> 0, tbl |-> Empty]

\* (maxsize < 0) ? 0 : (size_t)maxsize
Ceiling(maxsize) == IF maxsize < 0 THEN 0 ELSE maxsize

\* a plausible slip: the request alone is compared with the ceiling
MallocLimitNoUsed(mm, size) ==
    mm.maxsize # 0 /\ size > mm.maxsize

\* malloc_lua's test of the ceiling
MallocLimit(mm, size) ==
    mm.maxsize # 0
    /\ (SIZE_MAX - size < mm.usesize \/ Wrap(size + mm.usesize) > mm.maxsize)

\* realloc_lua's test of the ceiling: the same expression, on the new size
ReallocLimit(mm, size) ==
    mm.maxsize # 0
    /\ (SIZE_MAX - size < mm.usesize \/ Wrap(size + mm.usesize) > mm.maxsize)

\* malloc_lua, r being what m->allocf answers when it is asked
malloc_lua(mm, h, size, r) ==
    IF MallocLimit(mm, size)
    THEN [m |-> [mm EXCEPT !.nomem = 1], heap |-> h, ptr |-> NULL, res |-> "limit"]
    ELSE IF r.ptr # NULL
    THEN [m |-> [mm EXCEPT !.usesize = Wrap(@ + size),
                           !.tbl = Put(@, PtrKey(r.ptr), size)],
          heap |-> r.heap, ptr |-> r.ptr, res |-> "ok"]
    ELSE [m |-> [mm EXCEPT !.nomem = 1], heap |-> r.heap, ptr |-> NULL,
          res |-> "nomem"]

\* realloc_lua of a block that has a record, r being m->allocf's answer
realloc_lua(mm, h, ptr, size, r) ==
    IF ReallocLimit(mm, size)
    THEN [m |-> [mm EXCEPT !.nomem = 1], heap |-> h, ptr |-> NULL, res |-> "limit"]
    ELSE LET sz == mm.tbl[PtrKey(ptr)]
         IN IF r.ptr # NULL
            THEN [m |-> [mm EXCEPT !.usesize = Wrap(@ - sz + size),
                                   !.tbl = Put(Del(@, PtrKey(ptr)),
                                               PtrKey(r.ptr), size)],
                  heap |-> r.heap, ptr |-> r.ptr, res |-> "ok"]
            ELSE [m |-> [mm EXCEPT !.nomem = 1], heap |-> r.heap,
                  ptr |-> NULL, res |-> "nomem"]

\* free_lua of a block that has a record
free_lua(mm, h, ptr) ==
    LET size == mm.tbl[PtrKey(ptr)]
        r    == CHOOSE x \in Allocf(h, ptr, 0) : TRUE
    IN [m |-> [mm EXCEPT !.tbl = Del(@, PtrKey(ptr)),
                         !.usesize = Wrap(@ - size)],
        heap |-> r.heap]

\* the blocks the caller holds: those with a record in the size table
Held(mm) == {a \in Addrs : PtrKey(a) \in DOMAIN mm.tbl}

NoCall == [op |-> "none", res |-> "none", size |-> 0, old |-> 0, used |-> 0,
           ptr |-> NULL, newptr |-> NULL]

\* no entry point has been called
NoReturn == [how |-> "none", rc |-> 0, vals |-> <<>>]
\* err = {0}
NoErr == [code |-> "SUCCESS", msg |-> ""]
NoCallYet ==
    /\ arg = [t |-> "none"]
    /\ sched = [nalloc |-> 0, failAt |-> 0]
    /\ L = <<>>
    /\ blocks = {}
    /\ val = [t |-> "NULL"]
    /\ root = [t |-> "NULL"]
    /\ str = NULL
    /\ err = NoErr
    /\ ret = NoReturn

(***************************************************************************)
(* The arena driven by an arbitrary caller.                                *)
(***************************************************************************)
Init ==
    /\ pc = "new"
    /\ m = memalloc_init(0)
    /\ heap = Empty
    /\ maxarg = 0
    /\ last = NoCall
    /\ asserted = FALSE
    /\ ndispose = 0
    /\ NoCallYet

MemallocInit ==
    /\ pc = "new"
    /\ \E a \in MaxArgs :
         /\ maxarg' = a
         /\ m' = memalloc_init(Ceiling(a))
    /\ pc' = "live"
    /\ UNCHANGED <<heap, last, asserted, ndispose, callVars>>

MallocLua ==
    /\ pc = "live"
    /\ \E size \in Sizes : \E r \in Allocf(heap, NULL, size) :
         LET out == malloc_lua(m, heap, size, r)
         IN /\ m' = out.m
            /\ heap' = out.heap
            /\ last' = [op |-> "malloc", res |-> out.res, size |-> size,
                        old |-> 0, used |-> m.usesize, ptr |-> NULL,
                        newptr |-> out.ptr]
    /\ UNCHANGED <<pc, maxarg, asserted, ndispose, callVars>>

ReallocLua ==
    /\ pc = "live"
    /\ \E ptr \in Held(m) : \E size \in Sizes :
       \E r \in Allocf(heap, ptr, size) :
         LET out == realloc_lua(m, heap, ptr, size, r)
         IN /\ m' = out.m
            /\ heap' = out.heap
            /\ last' = [op |-> "realloc", res |-> out.res, size |-> size,
                        old |-> m.tbl[PtrKey(ptr)], used |-> m.usesize,
                        ptr |-> ptr, newptr |-> out.ptr]
    /\ UNCHANGED <<pc, maxarg, asserted, ndispose, callVars>>

FreeLua ==
    /\ pc = "live"
    /\ \E ptr \in Held(m) :
         LET out == free_lua(m, heap, ptr)
         IN /\ m' = out.m
            /\ heap' = out.heap
            /\ last' = [op |-> "free", res |-> "ok", size |-> 0,
                        old |-> m.tbl[PtrKey(ptr)], used |-> m.usesize,
                        ptr |-> ptr, newptr |-> NULL]
    /\ UNCHANGED <<pc, maxarg, asserted, ndispose, callVars>>

\* memalloc_dispose: assert(m->usesize == 0)
LeakAssertion(mm) == mm.usesize # 0

MemallocDispose ==
    /\ pc = "live"
    /\ asserted' = LeakAssertion(m)
    /\ ndispose' = ndispose + 1
    /\ pc' = "disposed"
    /\ UNCHANGED <<m, heap, maxarg, last, callVars>>

Next ==
    \/ MemallocInit
    \/ MallocLua
    \/ ReallocLua
    \/ FreeLua
    \/ MemallocDispose

Spec == Init /\ [][Next]_vars

(***************************************************************************)
(* Host (Lua) values.  A table is its raw length (lauxh_rawlen) and its    *)
(* entries in the order lua_next visits them; the entry of key -1, when    *)
(* there is one, is among them.                                            *)
(***************************************************************************)
Nil == [t |-> "nil"]
Boolean(b) == [t |-> "boolean", b |-> b]
Integer(i) == [t |-> "integer", i |-> i]
Real(r) == [t |-> "real", r |-> r]
String(s) == [t |-> "string", s |-> s]
Function == [t |-> "function"]
Thread == [t |-> "thread"]
LightUserdata == [t |-> "lightuserdata"]
\* the three userdata of init_aux_objects, and any other full userdata
AS_OBJECT == [t |-> "userdata", id |-> "yyjson.as_object"]
AS_ARRAY == [t |-> "userdata", id |-> "yyjson.as_array"]
AS_NULL == [t |-> "userdata", id |-> "yyjson.null"]
OtherUserdata == [t |-> "userdata", id |-> "other"]
Entry(k, v) == [k |-> k, v |-> v]
Table(len, ents) == [t |-> "table", len |-> len, ents |-> ents]

(***************************************************************************)
(* Mutable JSON values (yyjson_mut_val); NULLVAL is the C NULL that        *)
(* tovalue and the yyjson constructors return for "no value".              *)
(***************************************************************************)
NULLVAL == [t |-> "NULL"]
JNull == [t |-> "null"]
JBool(b) == [t |-> "bool", b |-> b]
JUint(n) == [t |-> "uint", n |-> n]
JSint(n) == [t |-> "sint", n |-> n]
JReal(r) == [t |-> "real", r |-> r]
JStr(s) == [t |-> "str", s |-> s]
JArr(a) == [t |-> "arr", a |-> a]
JObj(o) == [t |-> "obj", o |-> o]
Member(key, v) == [key |-> key, val |-> v]

(***************************************************************************)
(* The state a build threads through: the arena, the allocator's heap, the *)
(* number of m->allocf calls made, the call that the allocator fails (0:   *)
(* none), the Lua stack of L, and how the run broke off, if it did:        *)
(* "error" is a Lua error raised through lua_error (a longjmp out of the   *)
(* C function), "ub" is undefined behaviour of the Lua C API.              *)
(***************************************************************************)
\* slots of the Lua stack the model follows
MaxStack == 12
\* bytes of one yyjson_mut_val taken from the document's pool
ValSize == 1

BuildState(mm, h, failAt, stack) ==
    [m |-> mm, heap |-> h, nalloc |-> 0, failAt |-> failAt, stack |-> stack,
     err |-> "none"]

\* m->allocf(m->ud, NULL, 0, size) during a build: the scheduled call fails,
\* the others get the next unused address while the address space has room
AllocfNext(st, size) ==
    IF size = 0 \/ st.nalloc + 1 = st.failAt
       \/ Total(st.heap) + size > SIZE_MAX
    THEN [ptr |-> NULL, heap |-> st.heap]
    ELSE LET a == st.nalloc + 1
         IN [ptr |-> a, heap |-> Put(st.heap, a, size)]

\* the build state after a call of the arena that answered out
Called(st, out) ==
    [st |-> [st EXCEPT !.m = out.m, !.heap = out.heap,
                       !.nalloc = IF out.res = "limit" THEN @ ELSE @ + 1],
     ptr |-> out.ptr]

\* alc.malloc(alc.ctx, size) from inside yyjson
AlcMalloc(st, size) ==
    Called(st, malloc_lua(st.m, st.heap, size, AllocfNext(st, size)))

\* the value jv in the memory a, or NULL
ValueIn(a, jv) == [st |-> a.st, val |-> IF a.ptr = NULL THEN NULLVAL ELSE jv]

\* yyjson_mut_null, _bool, _uint, _sint, _real, _strn, _arr, _obj: the value
\* jv in memory of the document's pool, which grows through alc.malloc (one
\* value at a time in the model), or NULL
MutVal(st, jv) == ValueIn(AlcMalloc(st, ValSize), jv)

\* lua_push*: no lua_checkstack precedes it in tovalue
Push(st, v) ==
    IF Len(st.stack) >= MaxStack
    THEN [st EXCEPT !.err = "ub"]
    ELSE [st EXCEPT !.stack = Append(@, v)]

\* lua_pop(L, 1)
Pop(st) ==
    IF Len(st.stack) = 0
    THEN [st EXCEPT !.err = "ub"]
    ELSE [st EXCEPT !.stack = SubSeq(@, 1, Len(@) - 1)]

\* the value at a stack index; an index above the top is LUA_TNONE
None == [t |-> "none"]
At(st, idx) == IF idx >= 1 /\ idx <= Len(st.stack) THEN st.stack[idx] ELSE None

\* lua_gettop
Top(st) == Len(st.stack)

\* the position of key k among the entries, 0 when it is no key of the table
RECURSIVE KeyPos(_, _, _)
KeyPos(ents, k, i) ==
    IF i > Len(ents) THEN 0
    ELSE IF ents[i].k = k THEN i
    ELSE KeyPos(ents, k, i + 1)

\* lua_rawgeti(L, idx, n) without the push
RawGetI(tbl, n) ==
    LET p == KeyPos(tbl.ents, Integer(n), 1)
    IN IF p = 0 THEN Nil ELSE tbl.ents[p].v

\* lauxh_rawlen(L, idx): 0 for anything that is no table
RawLen(v) == IF v.t = "table" THEN v.len ELSE 0

\* lua_next(L, idx): pops the key, pushes the next pair.  Without a table in
\* the slot the behaviour is undefined; a key that the table does not hold
\* raises "invalid key to 'next'".
LuaNext(st, idx) ==
    IF At(st, idx).t # "table" \/ Top(st) = 0
    THEN [st |-> [st EXCEPT !.err = "ub"], more |-> FALSE]
    ELSE LET key  == At(st, Top(st))
             ents == At(st, idx).ents
             st1  == Pop(st)
             pos  == IF key = Nil THEN 0 ELSE KeyPos(ents, key, 1)
         IN IF key # Nil /\ pos = 0
            THEN [st |-> [st1 EXCEPT !.err = "error"], more |-> FALSE]
            ELSE IF pos = Len(ents)
            THEN [st |-> st1, more |-> FALSE]
            ELSE [st |-> Push(Push(st1, ents[pos + 1].k), ents[pos + 1].v),
                  more |-> TRUE]


(***************************************************************************)
(* tovalue                                                                 *)
(***************************************************************************)
Result(st, v) == [st |-> st, val |-> v]

\* yyjson_mut_arr_append(arr, val): nothing is appended for a NULL val
ArrAppend(bin, v) ==
    IF v = NULLVAL THEN bin ELSE JArr(Append(bin.a, v))

\* yyjson_mut_arr_insert(arr, val, idx): val becomes the element at the
\* 0-based position idx and the elements from there on move up; nothing is
\* done for an idx beyond the length
ArrInsert(bin, v, idx) ==
    IF v = NULLVAL \/ idx > Len(bin.a) THEN bin
    ELSE JArr(SubSeq(bin.a, 1, idx) \o <<v>>
              \o SubSeq(bin.a, idx + 1, Len(bin.a)))

\* yyjson_mut_obj_add(obj, key, val)
ObjAdd(bin, key, v) ==
    IF key = NULLVAL \/ v = NULLVAL THEN bin
    ELSE JObj(Append(bin.o, Member(key, v)))

RECURSIVE FillSpaces(_, _, _, _), FillSpacesOneMore(_, _, _, _)

\* yyjson_mut_arr_append(bin, nullval) and n++.  The test "if (!val)" in the
\* loop looks at val, which is not NULL here, so the loop never returns; a
\* nullval of NULL is passed to the append.
FillOne(nullval, bin, skip, n) ==
    FillSpaces(nullval.st, ArrAppend(bin, nullval.val), skip, n + 1)

FillOneMore(nullval, bin, skip, n) ==
    FillSpacesOneMore(nullval.st, ArrAppend(bin, nullval.val), skip, n + 1)

\* a plausible slip: the loop also runs for n = skip
FillSpacesOneMore(st, bin, skip, n) ==
    IF n > skip THEN [st |-> st, bin |-> bin]
    ELSE FillOneMore(MutVal(st, JNull), bin, skip, n)

\* for (n = 1; n < skip; n++): a Null for each index between prev and i
FillSpaces(st, bin, skip, n) ==
    IF n >= skip THEN [st |-> st, bin |-> bin]
    ELSE FillOne(MutVal(st, JNull), bin, skip, n)

\* a plausible slip: a Null is built for a value of an unsupported type
UnsupportedAsNull(st) == MutVal(st, JNull)

\* default: return NULL
Unsupported(st) == Result(st, NULLVAL)

RECURSIVE tovalue(_, _), ArrLoop(_, _, _, _), ObjLoop(_, _, _)

\* the array loop's test: a positive integer key whose value tovalue builds
ArrValue(st, k) ==
    IF k.t = "integer" /\ k.i > 0 THEN tovalue(st, Top(st))
    ELSE Result(st, NULLVAL)

\* yyjson_mut_arr_append(bin, val); prev = i; and the loop's lua_pop
ArrFilled(f, v, i) ==
    [st |-> Pop(f.st), bin |-> ArrAppend(f.bin, v), prev |-> i]

\* the body of the array loop for the pair of key k, r being the test's
\* result: nothing for no value, an insertion below prev, or the Nulls and
\* the append; then the loop's lua_pop
ArrPlace(r, k, bin, prev) ==
    IF r.val = NULLVAL THEN [st |-> Pop(r.st), bin |-> bin, prev |-> prev]
    ELSE IF k.i < prev
    THEN [st |-> Pop(r.st), bin |-> ArrInsert(bin, r.val, k.i - 1),
          prev |-> prev]
    ELSE ArrFilled(FillSpaces(r.st, bin, k.i - prev, 1), r.val, k.i)

ArrAgain(x, idx) == ArrLoop(x.st, idx, x.bin, x.prev)

ArrBody(r, k, idx, bin, prev) ==
    IF r.st.err # "none" THEN Result(r.st, NULLVAL)
    ELSE ArrAgain(ArrPlace(r, k, bin, prev), idx)

\* nx is what lua_next answered
ArrPair(nx, idx, bin, prev) ==
    IF nx.st.err # "none" THEN Result(nx.st, NULLVAL)
    ELSE IF ~nx.more THEN Result(nx.st, bin)
    ELSE ArrBody(ArrValue(nx.st, At(nx.st, Top(nx.st) - 1)),
                 At(nx.st, Top(nx.st) - 1), idx, bin, prev)

\* while (lua_next(L, idx) != 0) { ... lua_pop(L, 1); } of the array branch
ArrLoop(st, idx, bin, prev) ==
    IF st.err # "none" THEN Result(st, NULLVAL)
    ELSE ArrPair(LuaNext(st, idx), idx, bin, prev)

\* the object loop's test: a string key whose value tovalue builds
ObjValue(st, k) ==
    IF k.t = "string" THEN tovalue(st, Top(st)) ELSE Result(st, NULLVAL)

\* key is tovalue's result for the key: "return NULL" with the pair left in
\* the stack, or yyjson_mut_obj_add and the loop's lua_pop
ObjAdded(key, v, idx, bin) ==
    IF key.st.err # "none" \/ key.val = NULLVAL THEN Result(key.st, NULLVAL)
    ELSE ObjLoop(Pop(key.st), idx, ObjAdd(bin, key.val, v))

\* key = tovalue(doc, L, lua_gettop(L) - 1)
ObjKey(st) == tovalue(st, Top(st) - 1)

ObjBody(r, idx, bin) ==
    IF r.st.err # "none" THEN Result(r.st, NULLVAL)
    ELSE IF r.val = NULLVAL THEN ObjLoop(Pop(r.st), idx, bin)
    ELSE ObjAdded(ObjKey(r.st), r.val, idx, bin)

ObjPair(nx, idx, bin) ==
    IF nx.st.err # "none" THEN Result(nx.st, NULLVAL)
    ELSE IF ~nx.more THEN Result(nx.st, bin)
    ELSE ObjBody(ObjValue(nx.st, At(nx.st, Top(nx.st) - 1)), idx, bin)

\* while (lua_next(L, idx) != 0) { ... lua_pop(L, 1); } of the object branch
ObjLoop(st, idx, bin) ==
    IF st.err # "none" THEN Result(st, NULLVAL)
    ELSE ObjPair(LuaNext(st, idx), idx, bin)

\* bin is what yyjson_mut_arr answered; lua_pushnil and the loop
ArrOf(bin, idx) ==
    IF bin.val = NULLVAL THEN Result(bin.st, NULLVAL)
    ELSE ArrLoop(Push(bin.st, Nil), idx, bin.val, 0)

\* bin is what yyjson_mut_obj answered; lua_pushnil and the loop
ObjOf(bin, idx) ==
    IF bin.val = NULLVAL THEN Result(bin.st, NULLVAL)
    ELSE ObjLoop(Push(bin.st, Nil), idx, bin.val)

\* TREAT_AS_ARRAY
TreatAsArray(st, idx) == ArrOf(MutVal(st, JArr(<<>>)), idx)

\* TREAT_AS_OBJECT
TreatAsObject(st, idx) == ObjOf(MutVal(st, JObj(<<>>)), idx)

\* the gotos and if (lauxh_rawlen(L, idx)): as array, else as object
Branch(st, idx, target) ==
    IF st.err # "none" THEN Result(st, NULLVAL)
    ELSE IF target = "array" \/ (target = "rawlen" /\ RawLen(At(st, idx)) # 0)
    THEN TreatAsArray(st, idx)
    ELSE TreatAsObject(st, idx)

\* s1 is the stack with the value of raw index -1 pushed: a userdata is
\* popped inside the if, and the lua_pop after the if pops once more unless
\* one of the two gotos was taken
Tagged(s1, idx, tag) ==
    IF s1.err # "none" THEN Result(s1, NULLVAL)
    ELSE IF tag = AS_OBJECT THEN Branch(Pop(s1), idx, "object")
    ELSE IF tag = AS_ARRAY THEN Branch(Pop(s1), idx, "array")
    ELSE IF tag.t = "userdata" THEN Branch(Pop(Pop(s1)), idx, "rawlen")
    ELSE Branch(Pop(s1), idx, "rawlen")

\* case LUA_TTABLE
ToValueTable(st, idx, tag) == Tagged(Push(st, tag), idx, tag)

\* the cases of the switch for the value v of the index
Switch(st, idx, v) ==
    CASE v.t = "nil" -> MutVal(st, JNull)
      [] v.t = "boolean" -> MutVal(st, JBool(v.b))
      [] v.t = "integer" ->
             IF v.i > 0 THEN MutVal(st, JUint(v.i)) ELSE MutVal(st, JSint(v.i))
      [] v.t = "real" -> MutVal(st, JReal(v.r))
      [] v.t = "string" -> MutVal(st, JStr(v.s))
      [] v.t = "table" -> ToValueTable(st, idx, RawGetI(v, -1))
      [] v.t = "userdata" ->
             IF v = AS_NULL THEN MutVal(st, JNull) ELSE Unsupported(st)
      [] OTHER -> Unsupported(st)

tovalue(st, idx) == Switch(st, idx, At(st, idx))

(***************************************************************************)
(* encode_lua, from lua_settop(L, 1) to yyjson_mut_doc_set_root: the       *)
(* argument is built; an unsupported argument becomes Null; any failed     *)
(* allocation (m.nomem) is an out-of-memory failure.                       *)
(***************************************************************************)
\* !val && !(val = yyjson_mut_null(doc))
NullRoot(r, n) ==
    [st |-> n.st, val |-> r.val, root |-> n.val, fail |-> n.val = NULLVAL]

\* r is what tovalue answered
RootOf(r) ==
    IF r.st.err # "none"
    THEN [st |-> r.st, val |-> r.val, root |-> NULLVAL, fail |-> FALSE]
    ELSE IF r.st.m.nomem # 0
    THEN [st |-> r.st, val |-> r.val, root |-> NULLVAL, fail |-> TRUE]
    ELSE IF r.val = NULLVAL THEN NullRoot(r, MutVal(r.st, JNull))
    ELSE [st |-> r.st, val |-> r.val, root |-> r.val, fail |-> FALSE]

BuildRoot(st) == RootOf(tovalue(st, 1))

(***************************************************************************)
(* The host values the builder is applied to.                              *)
(***************************************************************************)
\* largest positive integer key of a table
MaxIndex == 3

IndexKeys == {Integer(i) : i \in 1 .. MaxIndex}
Keys == IndexKeys \cup {Integer(0), String("x")}

\* a string that tells which key a value belongs to
KeyName(k) ==
    CASE k.t = "integer" -> <<"v0", "v1", "v2", "v3", "v4", "v5", "v6">>[k.i + 1]
      [] OTHER -> "vx"

Inner == Table(1, <<Entry(Integer(1), Boolean(TRUE))>>)

\* the value of an entry: a string, a function or a table
ValueOf(k, kind) ==
    CASE kind = "str" -> String(KeyName(k))
      [] kind = "fn" -> Function
      [] OTHER -> Inner

\* the entries a table of the host program may hold, three at most
MaxEntries == 3
Kinds == {"str", "fn", "tab"}

\* what raw index -1 may hold: a sentinel, another userdata, a number
Tags == {AS_ARRAY, AS_OBJECT, AS_NULL, OtherUserdata, Integer(5)}

\* the entries without the entry of key -1
Untagged(ents) == SelectSeq(ents, LAMBDA e : e.k # Integer(-1))

HasIndex(e, n) == KeyPos(e, Integer(n), 1) # 0

\* the raw length of a table is one of its borders
Borders(e) ==
    {n \in 0 .. MaxIndex : (n = 0 \/ HasIndex(e, n)) /\ ~HasIndex(e, n + 1)}

Scalars ==
    {Nil, Boolean(TRUE), Integer(0), Integer(2), Integer(-2), Real("1.5"),
     String("a"), Function, Thread, LightUserdata, AS_NULL, AS_OBJECT,
     OtherUserdata}

\* the state a build starts from: the arena, the heap and the stack as they
\* are, the allocator's schedule as it stands
CallState ==
    [BuildState(m, heap, sched.failAt, L) EXCEPT !.nalloc = sched.nalloc]

(***************************************************************************)
(* The builder applied to the values of a host program, with memory to     *)
(* spare.  The program makes a table entry by entry (the order is the one  *)
(* lua_next visits them in; the entry of key -1, when there is one, comes  *)
(* first) and passes it, or a scalar, to the builder.                      *)
(***************************************************************************)
InitBuild ==
    /\ pc = "script"
    /\ m = memalloc_init(0)
    /\ heap = Empty
    /\ maxarg = 0
    /\ last = NoCall
    /\ asserted = FALSE
    /\ ndispose = 0
    /\ arg = Table(0, <<>>)
    /\ sched = [nalloc |-> 0, failAt |-> 0]
    /\ L = <<>>
    /\ blocks = {}
    /\ val = NULLVAL
    /\ root = NULLVAL
    /\ str = NULL
    /\ err = NoErr
    /\ ret = NoReturn

\* t[-1] = tag
ScriptTag ==
    /\ pc = "script"
    /\ arg.ents = <<>>
    /\ \E tag \in Tags : arg' = Table(0, <<Entry(Integer(-1), tag)>>)
    /\ UNCHANGED <<pc, m, heap, maxarg, last, asserted, ndispose, sched, L,
                   blocks, val, root, str, err, ret>>

\* t[k] = a string, a function or a table
ScriptEntry ==
    /\ pc = "script"
    /\ Len(Untagged(arg.ents)) < MaxEntries
    /\ \E k \in Keys, kind \in Kinds :
         /\ KeyPos(arg.ents, k, 1) = 0
         /\ arg' = Table(0, Append(arg.ents, Entry(k, ValueOf(k, kind))))
    /\ UNCHANGED <<pc, m, heap, maxarg, last, asserted, ndispose, sched, L,
                   blocks, val, root, str, err, ret>>

\* the table is the argument, at stack index 1
PassTable ==
    /\ pc = "script"
    /\ \E len \in Borders(arg.ents) :
         /\ arg' = Table(len, arg.ents)
         /\ L' = <<Table(len, arg.ents)>>
    /\ pc' = "tovalue"
    /\ UNCHANGED <<m, heap, maxarg, last, asserted, ndispose, sched, blocks,
                   val, root, str, err, ret>>

\* a scalar is the argument
PassScalar ==
    /\ pc = "script"
    /\ arg.ents = <<>>
    /\ \E v \in Scalars :
         /\ arg' = v
         /\ L' = <<v>>
    /\ pc' = "tovalue"
    /\ UNCHANGED <<m, heap, maxarg, last, asserted, ndispose, sched, blocks,
                   val, root, str, err, ret>>

ToValue ==
    /\ pc = "tovalue"
    /\ \E b \in {BuildRoot(CallState)} :
          /\ m' = b.st.m
          /\ heap' = b.st.heap
          /\ sched' = [sched EXCEPT !.nalloc = b.st.nalloc]
          /\ L' = b.st.stack
          /\ val' = b.val
          /\ root' = b.root
          /\ pc' = IF b.st.err # "none" THEN b.st.err
                   ELSE IF b.fail THEN "nomem" ELSE "built"
    /\ UNCHANGED <<maxarg, last, asserted, ndispose, arg, blocks, str,
                   err, ret>>

NextBuild ==
    \/ ScriptTag
    \/ ScriptEntry
    \/ PassTable
    \/ PassScalar
    \/ ToValue

SpecBuild == InitBuild /\ [][NextBuild]_vars

(***************************************************************************)
(* yyjson as encode_lua and decode_lua use it.  The library is no part of  *)
(* the source; it is modelled by its calls of the arena: a document is one *)
(* block, the writer's buffer is one block that may grow once.             *)
(***************************************************************************)
\* bytes of a document's first block
DocSize == 1
\* bytes of the writer's buffer before it grows
BufSize == 1

\* m->allocf(m->ud, ptr, osize, size) for a larger size: the scheduled call
\* fails, the others grow the block in place while there is room
AllocfGrow(st, ptr, size) ==
    IF st.nalloc + 1 = st.failAt \/ Total(Del(st.heap, ptr)) + size > SIZE_MAX
    THEN [ptr |-> NULL, heap |-> st.heap]
    ELSE [ptr |-> ptr, heap |-> Put(st.heap, ptr, size)]

\* alc.realloc(alc.ctx, ptr, old_size, size) from inside yyjson
AlcRealloc(st, ptr, size) ==
    Called(st, realloc_lua(st.m, st.heap, ptr, size, AllocfGrow(st, ptr, size)))

\* the build state after free_lua answered out
Freed(st, out) == [st EXCEPT !.m = out.m, !.heap = out.heap]

\* alc.free(alc.ctx, ptr) from inside yyjson
AlcFree(st, ptr) == Freed(st, free_lua(st.m, st.heap, ptr))

\* alc.free of every block of a set
RECURSIVE FreeAll(_, _)
FreeAll(st, ptrs) ==
    IF ptrs = {} THEN st
    ELSE FreeAll(AlcFree(st, CHOOSE x \in ptrs : TRUE),
                 ptrs \ {CHOOSE x \in ptrs : TRUE})

\* strerror(ENOMEM) with YYJSON_READ_ERROR_MEMORY_ALLOCATION
ENOMEM == [code |-> "YYJSON_READ_ERROR_MEMORY_ALLOCATION",
           msg |-> "Cannot allocate memory"]

\* a real that is NaN or infinite occurs in the value
RECURSIVE HasNaN(_)
HasNaN(v) ==
    CASE v.t = "real" -> v.r \in {"nan", "inf"}
      [] v.t = "arr" -> \E i \in 1 .. Len(v.a) : HasNaN(v.a[i])
      [] v.t = "obj" -> \E i \in 1 .. Len(v.o) : HasNaN(v.o[i].val)
      [] OTHER -> FALSE

WriteFailed(st, code, msg) ==
    [st |-> st, str |-> NULL, err |-> [code |-> code, msg |-> msg]]

Written(st, ptr) == [st |-> st, str |-> ptr, err |-> NoErr]

\* g is what alc.realloc answered for the buffer buf
Grown(g, buf) ==
    IF g.ptr = NULL
    THEN WriteFailed(AlcFree(g.st, buf), "YYJSON_WRITE_ERROR_MEMORY_ALLOCATION",
                     "memory allocation failed")
    ELSE Written(g.st, g.ptr)

\* a is what alc.malloc answered for the buffer
WriteInto(a, v, grow) ==
    IF a.ptr = NULL
    THEN WriteFailed(a.st, "YYJSON_WRITE_ERROR_MEMORY_ALLOCATION",
                     "memory allocation failed")
    ELSE IF HasNaN(v)
    THEN WriteFailed(AlcFree(a.st, a.ptr), "YYJSON_WRITE_ERROR_NAN_OR_INF",
                     "nan or inf number is not allowed")
    ELSE IF grow THEN Grown(AlcRealloc(a.st, a.ptr, BufSize + 1), a.ptr)
    ELSE Written(a.st, a.ptr)

\* yyjson_mut_write_opts(doc, flg, &m.alc, &len, &err) with flg = 0: the
\* text in a buffer of the arena, or NULL and the error; a buffer the
\* writer gives up is freed
yyjson_mut_write_opts(st, v, grow) == WriteInto(AlcMalloc(st, BufSize), v, grow)

\* the serialized text of a value, as a Lua string
Text(v) == [t |-> "string", s |-> <<"json", v>>]

\* an error code as a Lua integer
ErrCode(code) == [t |-> "integer", code |-> code]

\* pos of "%s at %d" and the read size, which the model does not follow
Pos == [t |-> "integer", code |-> "pos"]

(***************************************************************************)
(* pushvalue: a JSON value as a Lua value.                                 *)
(***************************************************************************)
\* lua_pushinteger(L, yyjson_get_uint(val)): uint64_t to lua_Integer
INTEGER_MAX == Pow2(SizeBits - 1) - 1
ToInteger(n) == IF n > INTEGER_MAX THEN n - (SIZE_MAX + 1) ELSE n

\* largest index of a sequence of Lua values that holds no nil
RECURSIVE LastSet(_, _)
LastSet(vs, n) ==
    IF n = 0 THEN 0 ELSE IF vs[n] # Nil THEN n ELSE LastSet(vs, n - 1)

\* the table lua_rawseti and lua_setfield leave: a nil value makes no entry
Stored(ents) == SelectSeq(ents, LAMBDA e : e.v # Nil)

\* lua_setfield(L, -2, key) for each pair in turn: the value replaces the one
\* the key had, and a nil value removes the key
RECURSIVE SetFields(_, _)
SetFields(ents, pairs) ==
    IF pairs = <<>> THEN ents
    ELSE SetFields(Stored(Append(SelectSeq(ents, LAMBDA e : e.k # Head(pairs).k),
                                 Head(pairs))),
                   Tail(pairs))

\* a plausible slip: the tag is never stored
RefEntryNever(with_ref, ref) == <<>>

\* if (with_ref) { lauxh_pushref(L, ref); lua_rawseti(L, -2, -1); }
RefEntry(with_ref, ref) ==
    IF with_ref THEN <<Entry(Integer(-1), ref)>> ELSE <<>>

ArrTable(vs, with_ref) ==
    Table(LastSet(vs, Len(vs)),
          RefEntry(with_ref, AS_ARRAY)
          \o Stored([i \in 1 .. Len(vs) |-> Entry(Integer(i), vs[i])]))

RECURSIVE PushValue(_, _, _)
PushValue(v, with_null, with_ref) ==
    CASE v.t = "null" -> IF with_null THEN AS_NULL ELSE Nil
      [] v.t = "bool" -> Boolean(v.b)
      [] v.t = "uint" -> Integer(ToInteger(v.n))
      [] v.t = "sint" -> Integer(v.n)
      [] v.t = "real" -> Real(v.r)
      [] v.t = "str" -> String(v.s)
      [] v.t = "arr" ->
             ArrTable([i \in 1 .. Len(v.a) |->
                          PushValue(v.a[i], with_null, with_ref)], with_ref)
      [] v.t = "obj" ->
             Table(0, RefEntry(with_ref, AS_OBJECT)
                      \o SetFields(<<>>,
                             [i \in 1 .. Len(v.o) |->
                                Entry(String(v.o[i].key.s),
                                      PushValue(v.o[i].val, with_null, with_ref))]))

\* pushvalue(L, root, with_null, with_ref), room being what lua_checkstack
\* answers for a container: the stack and the count of values to return
pushvalue(stack, v, with_null, with_ref, room) ==
    IF v.t \in {"arr", "obj"} /\ ~room
    THEN [stack |-> <<Nil, String("out of stack space")>>, rc |-> 2]
    ELSE [stack |-> Append(stack, PushValue(v, with_null, with_ref)), rc |-> 1]

\* rc == 1: lua_pushnil, lua_pushnil, lua_pushinteger(read size); rc = 4
Pushed(p) ==
    IF p.rc = 1 THEN [stack |-> p.stack \o <<Nil, Nil, Pos>>, rc |-> 4] ELSE p

(***************************************************************************)
(* The entry points encode_lua and decode_lua, step by step.  A call ends  *)
(* "returned" (the C function returned rc values), "aborted" (the assert   *)
(* of memalloc_dispose failed), "raised" (a Lua error left the C function  *)
(* by a longjmp) or "ub".                                                  *)
(***************************************************************************)
\* largest max_memory argument and latest failing m->allocf call tried
MaxCeil == 7
MaxFail == 8

EncodeArgs ==
    {Nil, Integer(2), Real("nan"), String("a"), Function,
     Table(0, <<Entry(String("x"), String("s"))>>),
     Table(0, <<Entry(String("a"),
                       Table(0, <<Entry(String("x"), String("s"))>>))>>),
     Table(2, <<Entry(Integer(1), String("a")), Entry(Integer(2), Nil)>>),
     Table(1, <<Entry(Integer(3), String("b")), Entry(Integer(1), String("a"))>>)}

\* the documents of the texts given to decode; NULLVAL: the text is no JSON
DecodeDocs ==
    {NULLVAL, JNull, JBool(TRUE), JUint(2), JUint(SIZE_MAX), JSint(-2),
     JReal("1.5"), JStr("a"), JArr(<<JUint(1), JNull>>),
     JObj(<<Member(JStr("k"), JArr(<<>>))>>)}

Terminal == {"returned", "aborted", "raised", "ub"}

InitCall ==
    /\ pc = "idle"
    /\ m = memalloc_init(0)
    /\ heap = Empty
    /\ maxarg = 0
    /\ last = NoCall
    /\ asserted = FALSE
    /\ ndispose = 0
    /\ NoCallYet

\* encode(v, max_memory): luaL_checkany to memalloc_init
EncodeCall ==
    /\ pc = "idle"
    /\ \E v \in EncodeArgs, a \in -1 .. MaxCeil, f \in 0 .. MaxFail :
         /\ arg' = v
         /\ maxarg' = a
         /\ L' = <<v, Integer(a)>>
         /\ m' = memalloc_init(Ceiling(a))
         /\ sched' = [nalloc |-> 0, failAt |-> f]
    /\ pc' = "doc_new"
    /\ UNCHANGED <<heap, last, asserted, ndispose, blocks, val, root, str,
                   err, ret>>

\* doc = yyjson_mut_doc_new(&m.alc); if (!doc) ... goto FAIL
EncodeDocNew ==
    /\ pc = "doc_new"
    /\ \E a \in {AlcMalloc(CallState, DocSize)} :
         /\ m' = a.st.m
         /\ heap' = a.st.heap
         /\ sched' = [sched EXCEPT !.nalloc = a.st.nalloc]
         /\ blocks' = IF a.ptr = NULL THEN {} ELSE {a.ptr}
         /\ err' = IF a.ptr = NULL THEN ENOMEM ELSE err
         /\ pc' = IF a.ptr = NULL THEN "fail" ELSE "build"
    /\ UNCHANGED <<maxarg, last, asserted, ndispose, arg, L, val, root, str,
                   ret>>

\* lua_settop(L, 1); val = tovalue(doc, L, 1); if (m.nomem || ...) goto
\* FAIL; yyjson_mut_doc_set_root(doc, val)
EncodeToValue ==
    /\ pc = "build"
    /\ \E b \in {BuildRoot([CallState EXCEPT !.stack = <<L[1]>>])} :
         /\ m' = b.st.m
         /\ heap' = b.st.heap
         /\ sched' = [sched EXCEPT !.nalloc = b.st.nalloc]
         /\ L' = b.st.stack
         /\ blocks' = blocks \cup (DOMAIN b.st.heap \ DOMAIN heap)
         /\ val' = b.val
         /\ root' = b.root
         /\ last' = [NoCall EXCEPT !.op = "tovalue",
                       !.res = IF b.st.m.nomem # 0 THEN "nomem" ELSE "ok"]
         /\ err' = IF b.st.err = "none" /\ b.fail THEN ENOMEM ELSE err
         /\ pc' = IF b.st.err = "error" THEN "raised"
                  ELSE IF b.st.err # "none" THEN "ub"
                  ELSE IF b.fail THEN "fail" ELSE "write"
    /\ UNCHANGED <<maxarg, asserted, ndispose, arg, str, ret>>

\* str = yyjson_mut_write_opts(doc, flg, &m.alc, &len, &err)
EncodeWrite ==
    /\ pc = "write"
    /\ \E grow \in BOOLEAN :
       \E w \in {yyjson_mut_write_opts(CallState, root, grow)} :
         /\ m' = w.st.m
         /\ heap' = w.st.heap
         /\ sched' = [sched EXCEPT !.nalloc = w.st.nalloc]
         /\ str' = w.str
         /\ err' = w.err
         /\ pc' = IF w.str = NULL THEN "fail" ELSE "ok"
    /\ UNCHANGED <<maxarg, last, asserted, ndispose, arg, L, blocks, val,
                   root, ret>>

\* FAIL: lua_settop(L, 0); nil, err.msg, err.code; rc is 3
EncodeFail ==
    /\ pc = "fail"
    /\ L' = <<Nil, String(err.msg), ErrCode(err.code)>>
    /\ ret' = [ret EXCEPT !.rc = 3]
    /\ pc' = "doc_free"
    /\ UNCHANGED <<m, heap, maxarg, last, asserted, ndispose, arg, sched,
                   blocks, val, root, str, err>>

\* lua_pushlstring(L, str, len); m.alc.free(m.alc.ctx, str); rc = 1
EncodeOk ==
    /\ pc = "ok"
    /\ L' = Append(L, Text(root))
    /\ \E f \in {AlcFree(CallState, str)} :
         /\ m' = f.m
         /\ heap' = f.heap
    /\ str' = NULL
    /\ ret' = [ret EXCEPT !.rc = 1]
    /\ pc' = "doc_free"
    /\ UNCHANGED <<maxarg, last, asserted, ndispose, arg, sched, blocks, val,
                   root, err>>

\* decode(text, with_null, with_ref, max_memory): lauxh_checklstring to
\* memalloc_init; arg is the text by the document it holds
DecodeCall ==
    /\ pc = "idle"
    /\ \E d \in DecodeDocs, wn \in BOOLEAN, wr \in BOOLEAN,
          a \in -1 .. MaxCeil, f \in 0 .. MaxFail :
         /\ arg' = [t |-> "string", doc |-> d, with_null |-> wn,
                    with_ref |-> wr]
         /\ maxarg' = a
         /\ L' = <<String("text")>>
         /\ m' = memalloc_init(Ceiling(a))
         /\ sched' = [nalloc |-> 0, failAt |-> f]
    /\ pc' = "read"
    /\ UNCHANGED <<heap, last, asserted, ndispose, blocks, val, root, str,
                   err, ret>>

\* a is what alc.malloc answered to yyjson_read_opts: no memory, no JSON
\* (the block is freed), or the document
ReadInto(a, d) ==
    IF a.ptr = NULL
    THEN [st |-> a.st, doc |-> NULL,
          err |-> [code |-> "YYJSON_READ_ERROR_MEMORY_ALLOCATION",
                   msg |-> "memory allocation failed"]]
    ELSE IF d = NULLVAL
    THEN [st |-> AlcFree(a.st, a.ptr), doc |-> NULL,
          err |-> [code |-> "YYJSON_READ_ERROR_UNEXPECTED_CHARACTER",
                   msg |-> "unexpected character"]]
    ELSE [st |-> a.st, doc |-> a.ptr, err |-> NoErr]

\* doc = yyjson_read_opts(str, len, flg, &m.alc, &err)
DecodeRead ==
    /\ pc = "read"
    /\ \E r \in {ReadInto(AlcMalloc(CallState, DocSize), arg.doc)} :
         /\ m' = r.st.m
         /\ heap' = r.st.heap
         /\ sched' = [sched EXCEPT !.nalloc = r.st.nalloc]
         /\ blocks' = IF r.doc = NULL THEN {} ELSE {r.doc}
         /\ root' = IF r.doc = NULL THEN root ELSE arg.doc
         /\ err' = r.err
         /\ pc' = IF r.doc = NULL THEN "read_fail" ELSE "push"
    /\ UNCHANGED <<maxarg, last, asserted, ndispose, arg, L, val, str, ret>>

\* rc = pushvalue(L, yyjson_doc_get_root(doc), with_null, with_ref) and the
\* three values after it
DecodePush ==
    /\ pc = "push"
    /\ \E room \in BOOLEAN :
       \E p \in {Pushed(pushvalue(L, root, arg.with_null, arg.with_ref, room))} :
         /\ L' = p.stack
         /\ ret' = [ret EXCEPT !.rc = p.rc]
    /\ pc' = "doc_free"
    /\ UNCHANGED <<m, heap, maxarg, last, asserted, ndispose, arg, sched,
                   blocks, val, root, str, err>>

\* else: nil, "msg at pos", err.code; rc is 3
DecodeReadFail ==
    /\ pc = "read_fail"
    /\ L' = L \o <<Nil, String(<<err.msg, "at", Pos>>), ErrCode(err.code)>>
    /\ ret' = [ret EXCEPT !.rc = 3]
    /\ pc' = "dispose"
    /\ UNCHANGED <<m, heap, maxarg, last, asserted, ndispose, arg, sched,
                   blocks, val, root, str, err>>

\* yyjson_mut_doc_free(doc), yyjson_doc_free(doc): every block of the
\* document is freed; nothing is done for a NULL doc
DocFree ==
    /\ pc = "doc_free"
    /\ \E f \in {FreeAll(CallState, blocks)} :
         /\ m' = f.m
         /\ heap' = f.heap
    /\ blocks' = {}
    /\ pc' = "dispose"
    /\ UNCHANGED <<maxarg, last, asserted, ndispose, arg, sched, L, val, root,
                   str, err, ret>>

\* memalloc_dispose(&m); return rc
Dispose ==
    /\ pc = "dispose"
    /\ asserted' = LeakAssertion(m)
    /\ ndispose' = ndispose + 1
    /\ pc' = IF LeakAssertion(m) THEN "aborted" ELSE "returned"
    /\ ret' = [how |-> IF LeakAssertion(m) THEN "abort" ELSE "return",
               rc |-> ret.rc,
               vals |-> SubSeq(L, Len(L) - ret.rc + 1, Len(L))]
    /\ UNCHANGED <<m, heap, maxarg, last, arg, sched, L, blocks, val, root,
                   str, err>>

NextCall ==
    \/ EncodeCall
    \/ EncodeDocNew
    \/ EncodeToValue
    \/ EncodeWrite
    \/ EncodeFail
    \/ EncodeOk
    \/ DecodeCall
    \/ DecodeRead
    \/ DecodePush
    \/ DecodeReadFail
    \/ DocFree
    \/ Dispose

SpecCall == InitCall /\ [][NextCall]_vars

(***************************************************************************)
(* decode, then the builder on the value decode returned: the text is      *)
(* decoded with memory to spare, the host keeps the first returned value   *)
(* and passes it to encode, whose tovalue builds it in a new arena.        *)
(***************************************************************************)
\* longest array and largest object of the decoded documents
MaxLen == 2

\* the values inside the containers of the decoded documents
RoundElems ==
    {JNull, JUint(1), JStr("a"), JArr(<<>>), JObj(<<>>), JArr(<<JNull>>)}

RoundKeys == {JStr("k1"), JStr("k2")}

RoundScalars ==
    {JNull, JBool(TRUE), JSint(-1), JReal("1.5"), JStr("a")}
    \cup {JUint(n) : n \in 0 .. SIZE_MAX}

RoundArrays ==
    UNION {{JArr(a) : a \in [1 .. n -> RoundElems]} : n \in 0 .. MaxLen}

RoundObjects ==
    UNION {{JObj([i \in 1 .. n |-> Member(k[i], e[i])]) :
              k \in [1 .. n -> RoundKeys], e \in [1 .. n -> RoundElems]} :
           n \in 0 .. MaxLen}

\* NULLVAL: the text is no JSON
RoundDocs == {NULLVAL} \cup RoundScalars \cup RoundArrays \cup RoundObjects

\* the entries of the array part: the positive integer keys
ArrayPart(ents) ==
    SelectSeq(ents, LAMBDA e : e.k.t = "integer" /\ e.k.i > 0)

\* the entries of the hash part: every other key
HashPart(ents) ==
    SelectSeq(ents, LAMBDA e : ~(e.k.t = "integer" /\ e.k.i > 0))

\* the orders a sequence can be put in
Perms(q) == {[i \in 1 .. Len(q) |-> q[p[i]]] : p \in Permutations(1 .. Len(q))}

\* the borders of a table's entries: what lauxh_rawlen may answer
RawLens(ents) ==
    {n \in 0 .. Len(ents) :
        (n = 0 \/ HasIndex(ents, n)) /\ ~HasIndex(ents, n + 1)}

\* the tables a host value can be for lauxh_rawlen and lua_next: the raw
\* length is any border; lua_next visits the array part that
\* lua_createtable(L, it.max, 0) made in ascending order and the hash part
\* in an order of its own
RECURSIVE Orders(_), EntryOrders(_)
Orders(v) ==
    IF v.t # "table" THEN {v}
    ELSE {Table(len, a \o h) :
            len \in RawLens(v.ents),
            a \in EntryOrders(ArrayPart(v.ents)),
            h \in UNION {Perms(x) : x \in EntryOrders(HashPart(v.ents))}}

EntryOrders(ents) ==
    IF ents = <<>> THEN {<<>>}
    ELSE {<<Entry(Head(ents).k, w)>> \o r :
            w \in Orders(Head(ents).v), r \in EntryOrders(Tail(ents))}

\* decode(text, with_null, with_ref): no max_memory, no failing allocation
RoundCall ==
    /\ pc = "idle"
    /\ \E d \in RoundDocs, wn \in BOOLEAN, wr \in BOOLEAN :
         arg' = [t |-> "string", doc |-> d, with_null |-> wn, with_ref |-> wr]
    /\ maxarg' = 0
    /\ L' = <<String("text")>>
    /\ m' = memalloc_init(Ceiling(0))
    /\ sched' = [nalloc |-> 0, failAt |-> 0]
    /\ pc' = "read"
    /\ UNCHANGED <<heap, last, asserted, ndispose, blocks, val, root, str,
                   err, ret>>

\* encode(v) of the value decode returned: luaL_checkany to lua_settop(L, 1)
\* with memory to spare
EncodeAgain ==
    /\ pc = "returned"
    /\ ret.rc = 4
    /\ \E v \in Orders(ret.vals[1]) : L' = <<v>>
    /\ m' = memalloc_init(Ceiling(0))
    /\ sched' = [nalloc |-> 0, failAt |-> 0]
    /\ pc' = "tovalue"
    /\ UNCHANGED <<heap, maxarg, last, asserted, ndispose, arg, blocks, val,
                   root, str, err, ret>>

NextRound ==
    \/ RoundCall
    \/ DecodeRead
    \/ DecodePush
    \/ DecodeReadFail
    \/ DocFree
    \/ Dispose
    \/ EncodeAgain
    \/ ToValue

SpecRound == InitCall /\ [][NextRound]_vars

(***************************************************************************)
(* Claims about the arena.                                                 *)
(***************************************************************************)
\* C1: after every allocate, reallocate and release call, usesize is the sum
\* of the sizes the table records for the live blocks, and the table holds
\* exactly one record per live block, keyed by its current address.
C1_Accounting ==
    pc # "new" =>
        /\ DOMAIN m.tbl = {PtrKey(a) : a \in DOMAIN heap}
        /\ \A a \in DOMAIN heap : m.tbl[PtrKey(a)] = heap[a]
        /\ m.usesize = Total(heap)

\* C2: with a ceiling max > 0, usesize <= max in every reachable state; with
\* max_memory zero or negative the ceiling is 0 and no call fails because of
\* the ceiling.
C2_Ceiling ==
    pc # "new" =>
        /\ m.maxsize > 0 => m.usesize <= m.maxsize
        /\ maxarg <= 0 => (m.maxsize = 0 /\ last.res # "limit")

\* C2 witness: an arena filled up to its ceiling has just refused a request.
C2_Witness ==
    /\ m.maxsize > 0
    /\ m.usesize = m.maxsize
    /\ last.op = "malloc"
    /\ last.res = "limit"

\* C5: dispose raises the leak assertion when an allocation is outstanding,
\* and does not raise it when none is.
C5_LeakAssertion ==
    pc = "disposed" => (asserted <=> DOMAIN heap # {})

\* C6: a reallocate of a live block of recorded size old to size new fails for
\* the ceiling exactly when max > 0 and used - old + new exceeds max (or
\* overflows); on success the record moves to the new address with size new.
C6_ReallocDelta ==
    last.op = "realloc" =>
        /\ last.res = "limit" <=>
              (m.maxsize > 0 /\ last.used - last.old + last.size > m.maxsize)
        /\ last.res = "ok" =>
              /\ PtrKey(last.newptr) \in DOMAIN m.tbl
              /\ m.tbl[PtrKey(last.newptr)] = last.size
              /\ (last.newptr # last.ptr => PtrKey(last.ptr) \notin DOMAIN m.tbl)

(***************************************************************************)
(* Claims about the builder.                                               *)
(***************************************************************************)
\* the host types tovalue has no case for
IsUnsupported(v) ==
    \/ v.t \in {"function", "thread", "lightuserdata"}
    \/ v.t = "userdata" /\ v # AS_NULL

\* raw index -1 holds a sentinel or no userdata at all
WellTagged(v) ==
    LET tag == RawGetI(v, -1)
    IN tag.t = "userdata" => tag \in {AS_OBJECT, AS_ARRAY}

\* a build of one host value on its own, with memory to spare
Fresh(v) == BuildState(memalloc_init(0), Empty, 0, <<v>>)
Built(v) == tovalue(Fresh(v), 1).val

\* the entries whose value tovalue has a case for
Supported(ents) == SelectSeq(ents, LAMBDA e : ~IsUnsupported(e.v))

\* the entries of a table built as the given kind, whatever index -1 holds
BuiltAs(kind, ents) ==
    IF kind = "arr" THEN TreatAsArray(Fresh(Table(0, ents)), 1).val
    ELSE TreatAsObject(Fresh(Table(0, ents)), 1).val

\* the positive integer keys
Indices(ents) == {i \in 1 .. MaxIndex + 1 : HasIndex(ents, i)}
SetMax(S) == IF S = {} THEN 0 ELSE CHOOSE x \in S : \A y \in S : y <= x
ValueAt(ents, i) == ents[KeyPos(ents, Integer(i), 1)].v

\* the positive integer keys are visited in ascending order
Ascending(ents) ==
    \A p, q \in 1 .. Len(ents) :
        (/\ p < q
         /\ ents[p].k.t = "integer" /\ ents[q].k.t = "integer"
         /\ ents[p].k.i > 0 /\ ents[q].k.i > 0) => ents[p].k.i < ents[q].k.i

\* C7: raw index -1 with the object sentinel gives an Object, with the array
\* sentinel an Array; otherwise the table is an Array exactly when its raw
\* length is not 0 and an Object in every other case; the entry of key -1
\* is no part of the built value.
C7_Resolution ==
    (pc \notin {"script", "tovalue"} /\ arg.t = "table") =>
        LET tag  == RawGetI(arg, -1)
            kind == IF tag = AS_OBJECT THEN "obj"
                    ELSE IF tag = AS_ARRAY THEN "arr"
                    ELSE IF arg.len # 0 THEN "arr" ELSE "obj"
        IN /\ val.t = kind
           /\ val = BuiltAs(kind, Untagged(arg.ents))

C9_AnyOrder ==
    (pc = "built" /\ arg.t = "table" /\ WellTagged(arg) /\ val.t = "arr"
     /\ Supported(Untagged(arg.ents)) = Untagged(arg.ents)) =>
        /\ Len(val.a) = SetMax(Indices(arg.ents))
        /\ \A i \in 1 .. Len(val.a) :
             val.a[i] = IF HasIndex(arg.ents, i)
                        THEN Built(ValueAt(arg.ents, i)) ELSE JNull

\* C10 as claimed: an unsupported argument is encoded as Null, and no
\* element of a built container stands for an unsupported entry: an object
\* has no member of its key, an array no Null at its index.
C10_NoElement ==
    /\ (pc = "built" /\ IsUnsupported(arg)) => root = JNull
    /\ (pc = "built" /\ arg.t = "table" /\ WellTagged(arg)
        /\ Ascending(arg.ents)) =>
          \A p \in 1 .. Len(arg.ents) :
            LET e == arg.ents[p]
            IN (e.k # Integer(-1) /\ IsUnsupported(e.v)) =>
                 /\ (val.t = "obj" /\ e.k.t = "string") =>
                      \A q \in 1 .. Len(val.o) : val.o[q].key.s # e.k.s
                 /\ (val.t = "arr" /\ e.k.t = "integer" /\ e.k.i > 0) =>
                      ~(e.k.i <= Len(val.a) /\ val.a[e.k.i] = JNull)

\* C10 amended: an unsupported argument is encoded as Null; a container is
\* built as if its unsupported entries were absent: an object has no member
\* for them, an array is the array of the other entries in the same order
\* (so the index of an unsupported entry holds a Null when a larger index
\* is appended later, as an absent index does).
C10_AsIfAbsent ==
    /\ (pc = "built" /\ IsUnsupported(arg)) => (val = NULLVAL /\ root = JNull)
    /\ (pc = "built" /\ arg.t = "table" /\ WellTagged(arg)) =>
          /\ val = BuiltAs(val.t, Supported(Untagged(arg.ents)))
          /\ val.t = "obj" =>
               \A p \in 1 .. Len(arg.ents) :
                 (arg.ents[p].k.t = "string" /\ IsUnsupported(arg.ents[p].v)) =>
                   \A q \in 1 .. Len(val.o) : val.o[q].key.s # arg.ents[p].k.s

\* C10 witness: {1: function, 2: "v2"} has been built as [null, "v2"].
C10_Witness ==
    /\ pc = "built"
    /\ arg = Table(2, <<Entry(Integer(1), Function),
                        Entry(Integer(2), String("v2"))>>)
    /\ val = JArr(<<JNull, JStr("v2")>>)

\* a table with a sentinel, or no userdata, at raw index -1 is built
\* without a failure when there is memory to spare
BuildSound ==
    (pc \notin {"script", "tovalue"} /\ (arg.t = "table" => WellTagged(arg)))
        => pc = "built"

(***************************************************************************)
(* Claims about the entry points.                                          *)
(***************************************************************************)
\* C3: when an arena allocation has failed while encode built the tree, the
\* call returns exactly (nil, message, out-of-memory code).
C3_BuildFailure ==
    (pc \in Terminal /\ last.op = "tovalue" /\ last.res = "nomem") =>
        /\ pc = "returned"
        /\ ret.rc = 3
        /\ ret.vals = <<Nil, String(ENOMEM.msg), ErrCode(ENOMEM.code)>>

\* C4: a call that has ended has reached memalloc_dispose exactly once, and
\* there every block of the call was released and usesize was 0.
C4_DisposeOnce ==
    /\ ndispose <= 1
    /\ pc \in Terminal =>
         /\ ndispose = 1
         /\ ~asserted
         /\ m.usesize = 0
         /\ DOMAIN heap = {}

\* every call that does not end by a Lua error disposes its arena once,
\* with nothing outstanding
DisposeUnlessRaised ==
    (pc \in Terminal /\ pc # "raised") =>
        (pc = "returned" /\ ndispose = 1 /\ ~asserted /\ m.usesize = 0
         /\ DOMAIN heap = {})

(***************************************************************************)
(* Claims about decode followed by the builder.                            *)
(***************************************************************************)
\* C11: for every n the parser tags UInt, decode hands the host the integer
\* n, and the builder makes a UInt of value n of it again.
C11_UIntRoundTrip ==
    (arg.t = "string" /\ arg.doc.t = "uint") =>
        /\ pc \in {"tovalue", "built"} => ret.vals[1] = Integer(arg.doc.n)
        /\ pc = "built" => val = JUint(arg.doc.n)

\* the value the last member of key k holds in the object d
RECURSIVE LastOf(_, _, _)
LastOf(d, k, i) == IF d.o[i].key = k THEN d.o[i].val ELSE LastOf(d, k, i - 1)

\* the keys of the object d that the host table keeps: a key whose last
\* value is a Null is kept only as the null marker
KeptKeys(d, wn) ==
    {d.o[i].key : i \in {j \in 1 .. Len(d.o) :
                            wn \/ LastOf(d, d.o[j].key, Len(d.o)) # JNull}}

\* the elements of the array d that the host table keeps: all of them with
\* the null marker, else those up to the last one that is no Null
RECURSIVE KeptLen(_, _, _)
KeptLen(d, wn, n) ==
    IF n = 0 \/ wn \/ d.a[n] # JNull THEN n ELSE KeptLen(d, wn, n - 1)

\* every container of the document d is, in the host value h, a table whose
\* index -1 holds the tag of its kind
RECURSIVE Carries(_, _)
Carries(d, h) ==
    CASE d.t = "arr" ->
           /\ h.t = "table"
           /\ RawGetI(h, -1) = AS_ARRAY
           /\ \A i \in 1 .. Len(d.a) :
                d.a[i].t \in {"arr", "obj"} => Carries(d.a[i], RawGetI(h, i))
      [] d.t = "obj" ->
           /\ h.t = "table"
           /\ RawGetI(h, -1) = AS_OBJECT
           /\ \A i \in 1 .. Len(d.o) :
                LET x == LastOf(d, d.o[i].key, Len(d.o))
                    p == KeyPos(h.ents, String(d.o[i].key.s), 1)
                IN x.t \in {"arr", "obj"} => (p # 0 /\ Carries(x, h.ents[p].v))
      [] OTHER -> TRUE

\* v is the document d as the host table keeps it: an array with the kept
\* elements in their order, an object with one member for each kept key
RECURSIVE Kept(_, _, _)
Kept(d, v, wn) ==
    CASE d.t = "arr" ->
           /\ v.t = "arr"
           /\ Len(v.a) = KeptLen(d, wn, Len(d.a))
           /\ \A i \in 1 .. Len(v.a) : Kept(d.a[i], v.a[i], wn)
      [] d.t = "obj" ->
           /\ v.t = "obj"
           /\ Len(v.o) = Cardinality(KeptKeys(d, wn))
           /\ \A k \in KeptKeys(d, wn) :
                \E q \in 1 .. Len(v.o) :
                  /\ v.o[q].key = k
                  /\ Kept(LastOf(d, k, Len(d.o)), v.o[q].val, wn)
      [] OTHER -> v = d

C13_StackBalanced ==
    (last.op = "tovalue" /\ pc \in {"fail", "write"}) => L = <<arg>>

\* with no failed allocation the stack is balanced when tovalue returns
BalancedWithMemory ==
    (last.op = "tovalue" /\ last.res = "ok" /\ pc \in {"fail", "write"})
        => L = <<arg>>

====
